---- MODULE Spec2Model ----
(***************************************************************************)
(* Model of pkg/alb/rule.go: the Rule entity of the ALB ingress           *)
(* controller, its constructors, its reconciliation state machine         *)
(* (Reconcile / create / modify / delete), the target group resolution,   *)
(* the modification predicate and the priority codec.                      *)
(*                                                                         *)
(* Go strings that the code parses or formats (rule priorities) are       *)
(* sequences of one-character strings; identifiers that are only compared  *)
(* (ARNs, service names, error values) are TLA+ strings.  A nil pointer   *)
(* to a struct is NilRule, a nil *string is NilStr and a nil error is     *)
(* NilErr.                                                                 *)
(***************************************************************************)
EXTENDS Integers, Sequences, FiniteSets, TLC

\* ------------------------------------------------------------------ bounds

\* Largest priority handed to NewRule (priorities range over 0..MaxPriority).
MaxPriority == 2

\* Longest string handed to the priority decoder on its own.
MaxStrLen == 3

\* Largest magnitude of a priority handed to the priority encoder on its own.
MaxCodecInt == 120

\* ------------------------------------------------------------ nil values

NilRule == [isNil |-> TRUE]
NilStr  == "<nil>"
NilErr  == "<nil>"

\* ------------------------------------------------------- priority codec

Digits == <<"0", "1", "2", "3", "4", "5", "6", "7", "8", "9">>

DigitSet == {Digits[i] : i \in 1..10}

DigitVal(c) == (CHOOSE i \in 1..10 : Digits[i] = c) - 1

DefaultStr == <<"d", "e", "f", "a", "u", "l", "t">>

\* strconv's decimal rendering of a non-negative integer.
RECURSIVE FormatUint(_)
FormatUint(n) ==
    IF n < 10 THEN <<Digits[n + 1]>>
    ELSE Append(FormatUint(n \div 10), Digits[(n % 10) + 1])

\* fmt.Sprintf("%v", priority) for an int.
Sprintf(n) == IF n < 0 THEN <<"-">> \o FormatUint(0 - n) ELSE FormatUint(n)

\* strconv.ParseUint(s, 10, 64) on a string short enough not to overflow:
\* the empty string and any non-digit character are syntax errors, and a
\* syntax error returns the value 0.
RECURSIVE ParseDigits(_, _)
ParseDigits(s, acc) ==
    IF s = <<>> THEN [val |-> acc, err |-> NilErr]
    ELSE IF Head(s) \notin DigitSet THEN [val |-> 0, err |-> "ErrSyntax"]
    ELSE ParseDigits(Tail(s), acc * 10 + DigitVal(Head(s)))

ParseUint(s) ==
    IF s = <<>> THEN [val |-> 0, err |-> "ErrSyntax"] ELSE ParseDigits(s, 0)

\* strconv.ParseInt(s, 10, 64): an optional sign, then ParseUint.
ParseInt(s) ==
    IF s = <<>> THEN [val |-> 0, err |-> "ErrSyntax"]
    ELSE LET neg  == Head(s) = "-"
             body == IF Head(s) \in {"+", "-"} THEN Tail(s) ELSE s
             un   == ParseUint(body)
         IN  IF un.err # NilErr THEN [val |-> 0, err |-> un.err]
             ELSE [val |-> IF neg THEN 0 - un.val ELSE un.val, err |-> NilErr]

\* priority(s): "default" is 0; otherwise the parsed value, the parse
\* error being discarded (i, _ := strconv.ParseInt(...)).
priority(s) == IF s = DefaultStr THEN 0 ELSE ParseInt(s).val


\* ------------------------------------------------------------ data model

\* Values the model draws identifiers from.
Hostnames == {"", "example.com"}

Paths == {"", "/api"}

SvcNames == {"svc-a", "svc-b"}

ListenerArns == {"listener-1"}

RuleArns == {"rule-1", "rule-2"}

TgArnNames == <<"tg-1", "tg-2", "tg-3", "tg-4">>

\* Errors the provider's CreateRule / DeleteRule may return.
ProviderErrors == {"AccessDenied", "Throttling"}

\* Most target group records in the load balancer's collection.
MaxTgs == 2

HostCondition(hostname) == [Field |-> "host-header", Values |-> <<hostname>>]

PathCondition(path) == [Field |-> "path-pattern", Values |-> <<path>>]

\* NewRule's priority-to-string step as it would be without the sentinel
\* for priority 0.
EncodePriority_NoSentinel(prio) == Sprintf(prio)

\* The priority-to-string step of NewRule: "default" for 0, otherwise the
\* decimal form.
EncodePriority(prio) == IF prio = 0 THEN DefaultStr ELSE Sprintf(prio)

\* NewRule as it would be if the path condition were appended before the
\* host condition.
NewRule_PathFirst(prio, hostname, path, svcname) ==
    LET c1 == IF path # "" THEN <<PathCondition(path)>> ELSE <<>>
        c2 == IF hostname # "" THEN Append(c1, HostCondition(hostname)) ELSE c1
        rule == [IsDefault      |-> (prio = 0),
                 Priority       |-> EncodePriority(prio),
                 Conditions     |-> c2,
                 ActionType     |-> "forward",
                 TargetGroupArn |-> NilStr,
                 RuleArn        |-> NilStr]
    IN  [CurrentRule |-> NilRule,
         DesiredRule |-> rule,
         svcName     |-> svcname,
         deleted     |-> FALSE]

\* NewRule(priority, hostname, path, svcname): the Rule built from intent.
\* The elbv2.Rule is flattened: TargetGroupArn is Actions[0].TargetGroupArn
\* of the single forward action, RuleArn is unset.
NewRule(prio, hostname, path, svcname) ==
    LET c1 == IF hostname # "" THEN <<HostCondition(hostname)>> ELSE <<>>
        c2 == IF path # "" THEN Append(c1, PathCondition(path)) ELSE c1
        rule == [IsDefault      |-> (prio = 0),
                 Priority       |-> EncodePriority(prio),
                 Conditions     |-> c2,
                 ActionType     |-> "forward",
                 TargetGroupArn |-> NilStr,
                 RuleArn        |-> NilStr]
    IN  [CurrentRule |-> NilRule,
         DesiredRule |-> rule,
         svcName     |-> svcname,
         deleted     |-> FALSE]

\* NewRuleFromAWSRule(rule): the Rule built from a rule observed in AWS.
NewRuleFromAWSRule(rule) ==
    [CurrentRule |-> rule,
     DesiredRule |-> NilRule,
     svcName     |-> "",
     deleted     |-> FALSE]

\* Condition lists a rule observed in AWS may carry: those NewRule builds,
\* and the two-condition list in the other order.
ObservedConditions ==
    {NewRule(1, h, p, "").DesiredRule.Conditions : h \in Hostnames, p \in Paths}
    \cup {<<PathCondition(p), HostCondition(h)>> :
              h \in Hostnames \ {""}, p \in Paths \ {""}}

\* Rules as the provider reports them: the listener's default rule, and
\* rules with a positive priority, each with a resolved forward action.
ObservedRules ==
    {[IsDefault |-> TRUE, Priority |-> DefaultStr, Conditions |-> <<>>,
      ActionType |-> "forward", TargetGroupArn |-> TgArnNames[1],
      RuleArn |-> "rule-0"]}
    \cup {[IsDefault |-> FALSE, Priority |-> Sprintf(p), Conditions |-> c,
           ActionType |-> "forward", TargetGroupArn |-> TgArnNames[1],
           RuleArn |-> "rule-1"] :
              p \in 1..MaxPriority, c \in ObservedConditions}

\* Rules built from intent.
IntentRules ==
    {NewRule(p, h, pa, s) :
        p \in 0..MaxPriority, h \in Hostnames, pa \in Paths, s \in SvcNames}

\* A paired Rule: the observed half (or none) joined with the intent half
\* (or none) by the caller before Reconcile.
Pair(cur, intent) ==
    [CurrentRule |-> cur,
     DesiredRule |-> intent.DesiredRule,
     svcName     |-> intent.svcName,
     deleted     |-> FALSE]

PairedRules ==
    {Pair(cur, intent) :
        cur \in ObservedRules \cup {NilRule},
        intent \in IntentRules \cup {NewRuleFromAWSRule(NilRule)}}

\* The load balancer's target group collection: record i carries the
\* i-th target group ARN and the service it was built for.
TargetGroupRecord(svcs, i) ==
    [SvcName |-> svcs[i], TargetGroupArn |-> TgArnNames[i]]

TargetGroupCollections ==
    UNION {{[i \in 1..n |-> TargetGroupRecord(svcs, i)] :
               svcs \in [1..n -> SvcNames]} : n \in 0..MaxTgs}

\* ------------------------------------------------------ external parts

\* TargetGroups.LookupBySvc(svc): index of the first record built for the
\* service, -1 when there is none.
LookupBySvc(tgs, svc) ==
    IF \E i \in 1..Len(tgs) : tgs[i].SvcName = svc
    THEN CHOOSE i \in 1..Len(tgs) :
             /\ tgs[i].SvcName = svc
             /\ \A j \in 1..(i - 1) : tgs[j].SvcName # svc
    ELSE -1

\* log.Prettify(conditions): the rendering of a condition list, one
\* bracketed group of tokens per condition, in list order.
RECURSIVE Prettify(_)
Prettify(conds) ==
    IF conds = <<>> THEN <<>>
    ELSE <<"{", "Field:", Head(conds).Field, "Values:", "[">>
         \o Head(conds).Values \o <<"]", "}">> \o Prettify(Tail(conds))

\* What the provider answers to one call: an error or none, and the ARN it
\* gives a rule it creates.
ProviderResponses ==
    {[err |-> NilErr, RuleArn |-> a] : a \in RuleArns}
    \cup {[err |-> e, RuleArn |-> NilStr] : e \in ProviderErrors}

\* ALBsvc.CreateRule(in): on success the created rule, which carries the
\* request's conditions, action and priority and a fresh ARN.
CreateRule(in, resp) ==
    IF resp.err # NilErr THEN [err |-> resp.err, Rule |-> NilRule]
    ELSE [err  |-> NilErr,
          Rule |-> [IsDefault      |-> FALSE,
                    Priority       |-> Sprintf(in.Priority),
                    Conditions     |-> in.Conditions,
                    ActionType     |-> in.ActionType,
                    TargetGroupArn |-> in.TargetGroupArn,
                    RuleArn        |-> resp.RuleArn]]

\* ALBsvc.DeleteRule(in): the provider's error or none.
DeleteRule(in, resp) == resp.err

\* --------------------------------------------------------- notifications

Event(type, reason) == [Type |-> type, Reason |-> reason]

\* ------------------------------------------------------------ operations

\* What one operation on a Rule leaves behind: the Rule, the provider
\* calls it issued, the notifications it emitted and its return value.
Outcome(rule, calls, events, ret) ==
    [r |-> rule, calls |-> calls, events |-> events, ret |-> ret]

\* r.targetGroupArn(tgs)
targetGroupArn(rule, tgs) ==
    IF rule.CurrentRule # NilRule /\ rule.CurrentRule.TargetGroupArn # NilStr
    THEN rule.CurrentRule.TargetGroupArn
    ELSE LET tgIndex == LookupBySvc(tgs, rule.svcName)
         IN  IF tgIndex < 0 THEN NilStr ELSE tgs[tgIndex].TargetGroupArn

\* create as it would be if a failed CreateRule were tried a second time
\* before giving up.
create_Retry(rule, tgs, l, resp) ==
    LET arn   == targetGroupArn(rule, tgs)
        in    == [api            |-> "CreateRule",
                  ActionType     |-> rule.DesiredRule.ActionType,
                  TargetGroupArn |-> arn,
                  Conditions     |-> rule.DesiredRule.Conditions,
                  ListenerArn    |-> l,
                  Priority       |-> priority(rule.DesiredRule.Priority)]
        rule1 == [rule EXCEPT !.DesiredRule.TargetGroupArn = arn]
        o     == CreateRule(in, resp)
    IN  IF o.err # NilErr
        THEN Outcome(rule1, <<in, in>>, <<Event("Warning", "ERROR")>>, o.err)
        ELSE Outcome([rule1 EXCEPT !.CurrentRule = o.Rule], <<in>>, <<>>, NilErr)

\* create as it would be if the resolved target group ARN went into the
\* request only, and not into the desired rule's action.
create_NoAttach(rule, tgs, l, resp) ==
    LET in == [api            |-> "CreateRule",
               ActionType     |-> rule.DesiredRule.ActionType,
               TargetGroupArn |-> targetGroupArn(rule, tgs),
               Conditions     |-> rule.DesiredRule.Conditions,
               ListenerArn    |-> l,
               Priority       |-> priority(rule.DesiredRule.Priority)]
        o  == CreateRule(in, resp)
    IN  IF o.err # NilErr
        THEN Outcome(rule, <<in>>, <<Event("Warning", "ERROR")>>, o.err)
        ELSE Outcome([rule EXCEPT !.CurrentRule = o.Rule], <<in>>, <<>>, NilErr)

\* r.create(rOpts, l).  in.Actions shares its Action with r.DesiredRule, so
\* attaching the target group to in.Actions[0] writes the desired rule too.
create(rule, tgs, l, resp) ==
    LET arn   == targetGroupArn(rule, tgs)
        in    == [api            |-> "CreateRule",
                  ActionType     |-> rule.DesiredRule.ActionType,
                  TargetGroupArn |-> arn,
                  Conditions     |-> rule.DesiredRule.Conditions,
                  ListenerArn    |-> l,
                  Priority       |-> priority(rule.DesiredRule.Priority)]
        rule1 == [rule EXCEPT !.DesiredRule.TargetGroupArn = arn]
        o     == CreateRule(in, resp)
    IN  IF o.err # NilErr
        THEN Outcome(rule1, <<in>>, <<Event("Warning", "ERROR")>>, o.err)
        ELSE Outcome([rule1 EXCEPT !.CurrentRule = o.Rule], <<in>>, <<>>, NilErr)

\* modify as it would be if it were implemented: a ModifyRule call that
\* brings the current rule's conditions to the desired ones.
modify_Implemented(rule) ==
    Outcome([rule EXCEPT !.CurrentRule.Conditions = rule.DesiredRule.Conditions],
            <<[api        |-> "ModifyRule",
               RuleArn    |-> rule.CurrentRule.RuleArn,
               Conditions |-> rule.DesiredRule.Conditions]>>,
            <<>>, NilErr)

\* r.modify(rOpts): unimplemented in the source.
modify(rule) == Outcome(rule, <<>>, <<>>, NilErr)

\* delete as it would be if a successful DeleteRule left the marker unset.
delete_NoMark(rule, resp) ==
    IF rule.CurrentRule = NilRule THEN Outcome(rule, <<>>, <<>>, NilErr)
    ELSE IF rule.CurrentRule.IsDefault THEN Outcome(rule, <<>>, <<>>, NilErr)
    ELSE LET in  == [api |-> "DeleteRule", RuleArn |-> rule.CurrentRule.RuleArn]
             err == DeleteRule(in, resp)
         IN  IF err # NilErr
             THEN Outcome(rule, <<in>>, <<Event("Warning", "ERROR")>>, err)
             ELSE Outcome(rule, <<in>>, <<>>, NilErr)

\* delete as it would be if the marker were set before the provider's answer
\* is looked at.
delete_MarkBeforeCall(rule, resp) ==
    IF rule.CurrentRule = NilRule THEN Outcome(rule, <<>>, <<>>, NilErr)
    ELSE IF rule.CurrentRule.IsDefault THEN Outcome(rule, <<>>, <<>>, NilErr)
    ELSE LET in    == [api |-> "DeleteRule", RuleArn |-> rule.CurrentRule.RuleArn]
             err   == DeleteRule(in, resp)
             rule1 == [rule EXCEPT !.deleted = TRUE]
         IN  IF err # NilErr
             THEN Outcome(rule1, <<in>>, <<Event("Warning", "ERROR")>>, err)
             ELSE Outcome(rule1, <<in>>, <<>>, NilErr)

\* delete as it would be without its own guard for the default rule.
delete_NoDefaultGuard(rule, resp) ==
    IF rule.CurrentRule = NilRule THEN Outcome(rule, <<>>, <<>>, NilErr)
    ELSE LET in  == [api |-> "DeleteRule", RuleArn |-> rule.CurrentRule.RuleArn]
             err == DeleteRule(in, resp)
         IN  IF err # NilErr
             THEN Outcome(rule, <<in>>, <<Event("Warning", "ERROR")>>, err)
             ELSE Outcome([rule EXCEPT !.deleted = TRUE], <<in>>, <<>>, NilErr)

\* r.delete(rOpts)
delete(rule, resp) ==
    IF rule.CurrentRule = NilRule THEN Outcome(rule, <<>>, <<>>, NilErr)
    ELSE IF rule.CurrentRule.IsDefault THEN Outcome(rule, <<>>, <<>>, NilErr)
    ELSE LET in  == [api |-> "DeleteRule", RuleArn |-> rule.CurrentRule.RuleArn]
             err == DeleteRule(in, resp)
         IN  IF err # NilErr
             THEN Outcome(rule, <<in>>, <<Event("Warning", "ERROR")>>, err)
             ELSE Outcome([rule EXCEPT !.deleted = TRUE], <<in>>, <<>>, NilErr)

\* Whether r.needsModification() gets to compare the two condition lists:
\* its first case returns before the comparison when there is no current rule.
comparesConditions(rule) == rule.CurrentRule # NilRule

\* needsModification as it would be with the comparison of the actions that
\* the source leaves commented out.
needsModification_CompareActions(rule) ==
    IF rule.CurrentRule = NilRule THEN TRUE
    ELSE IF rule.CurrentRule.TargetGroupArn # rule.DesiredRule.TargetGroupArn
    THEN TRUE
    ELSE IF Prettify(rule.CurrentRule.Conditions)
              # Prettify(rule.DesiredRule.Conditions) THEN TRUE
    ELSE FALSE

\* r.needsModification()
needsModification(rule) ==
    IF rule.CurrentRule = NilRule THEN TRUE
    ELSE IF Prettify(rule.CurrentRule.Conditions)
              # Prettify(rule.DesiredRule.Conditions) THEN TRUE
    ELSE FALSE

\* util.DeepEqual(a, b): equality of the values pointed to.
DeepEqual(a, b) == a = b

\* CurrentEquals as it would be if only the conditions were compared.
CurrentEquals_IgnoresPriority(rule, target) ==
    IF rule.CurrentRule = NilRule THEN FALSE
    ELSE IF ~DeepEqual(rule.CurrentRule.Conditions, target.Conditions) THEN FALSE
    ELSE TRUE

\* r.CurrentEquals(target)
CurrentEquals(rule, target) ==
    IF rule.CurrentRule = NilRule THEN FALSE
    ELSE IF ~DeepEqual(rule.CurrentRule.Priority, target.Priority) THEN FALSE
    ELSE IF ~DeepEqual(rule.CurrentRule.Conditions, target.Conditions) THEN FALSE
    ELSE TRUE

\* An operation's outcome with the notification Reconcile adds on success.
WithEvent(o, reason) ==
    [o EXCEPT !.events = Append(o.events, Event("Normal", reason))]

\* An outcome tagged with the case of the switch that produced it and with
\* whether the condition lists were compared on the way.
Tagged(o, case, diffed) ==
    [r |-> o.r, calls |-> o.calls, events |-> o.events, ret |-> o.ret,
     case |-> case, diffed |-> diffed]

\* The cases of Reconcile's switch.

\* Nothing to do: the breaks of the first case, and the default case.
NoopCase(rule, diffed) ==
    Tagged(Outcome(rule, <<>>, <<>>, NilErr), "noop", diffed)

\* The delete case as it would be if the DELETE notification did not wait
\* for delete's result.
DeleteCase_EventAlways(rule, resp) ==
    Tagged(WithEvent(delete(rule, resp), "DELETE"), "delete", FALSE)

\* The rule should be deleted.
DeleteCase(rule, resp) ==
    LET o == delete(rule, resp)
    IN  IF o.ret # NilErr THEN Tagged(o, "delete", FALSE)
        ELSE Tagged(WithEvent(o, "DELETE"), "delete", FALSE)

\* The default case as it would be if it did nothing at all, as the comment
\* on it says.
AdoptDefaultCase_NoCopy(rule) ==
    Tagged(Outcome(rule, <<>>, <<>>, NilErr), "adopt-default", FALSE)

\* The desired rule is the default rule: r.CurrentRule = r.DesiredRule.
AdoptDefaultCase(rule) ==
    Tagged(Outcome([rule EXCEPT !.CurrentRule = rule.DesiredRule],
                   <<>>, <<>>, NilErr), "adopt-default", FALSE)

\* The rule does not exist and should be created.
CreateCase(rule, tgs, l, resp) ==
    LET o == create(rule, tgs, l, resp)
    IN  IF o.ret # NilErr THEN Tagged(o, "create", FALSE)
        ELSE Tagged(WithEvent(o, "CREATE"), "create", FALSE)

\* Current and desired differ: modify the rule.
ModifyCase(rule) ==
    LET o == modify(rule)
    IN  IF o.ret # NilErr THEN Tagged(o, "modify", comparesConditions(rule))
        ELSE Tagged(WithEvent(o, "MODIFY"), "modify", comparesConditions(rule))

\* Reconcile as it would be if the first case did not break on a current
\* rule that is the default rule.
Reconcile_NoDefaultBreak(rule, tgs, l, resp) ==
    IF rule.DesiredRule = NilRule
    THEN IF rule.CurrentRule = NilRule THEN NoopCase(rule, FALSE)
         ELSE DeleteCase(rule, resp)
    ELSE IF rule.DesiredRule.IsDefault THEN AdoptDefaultCase(rule)
    ELSE IF rule.CurrentRule = NilRule THEN CreateCase(rule, tgs, l, resp)
    ELSE IF needsModification(rule) THEN ModifyCase(rule)
    ELSE NoopCase(rule, comparesConditions(rule))

\* Reconcile as it would be if existence were checked before default-ness.
Reconcile_ExistenceFirst(rule, tgs, l, resp) ==
    IF rule.DesiredRule = NilRule
    THEN IF rule.CurrentRule = NilRule THEN NoopCase(rule, FALSE)
         ELSE IF rule.CurrentRule.IsDefault = TRUE THEN NoopCase(rule, FALSE)
         ELSE DeleteCase(rule, resp)
    ELSE IF rule.CurrentRule = NilRule THEN CreateCase(rule, tgs, l, resp)
    ELSE IF rule.DesiredRule.IsDefault THEN AdoptDefaultCase(rule)
    ELSE IF needsModification(rule) THEN ModifyCase(rule)
    ELSE NoopCase(rule, comparesConditions(rule))

\* r.Reconcile(rOpts, l): the switch, first matching case wins.
Reconcile(rule, tgs, l, resp) ==
    IF rule.DesiredRule = NilRule
    THEN IF rule.CurrentRule = NilRule THEN NoopCase(rule, FALSE)
         ELSE IF rule.CurrentRule.IsDefault = TRUE THEN NoopCase(rule, FALSE)
         ELSE DeleteCase(rule, resp)
    ELSE IF rule.DesiredRule.IsDefault THEN AdoptDefaultCase(rule)
    ELSE IF rule.CurrentRule = NilRule THEN CreateCase(rule, tgs, l, resp)
    ELSE IF needsModification(rule) THEN ModifyCase(rule)
    ELSE NoopCase(rule, comparesConditions(rule))

\* ----------------------------------------------------------------- state

VARIABLES
    r,      \* the Rule
    tgs,    \* the load balancer's target group collection
    inv,    \* the last operation invoked on r: its name, what the provider
            \* answered, and the operation's outcome apart from r
    prev,   \* r, its sibling, tgs and inv as they were before the last operation
    dec,    \* the priority codec on its own: its argument and its result
    probe,  \* the last constructor or predicate applied: its name, its
            \* arguments and its result
    sib,    \* a sibling Rule of the same listener
    tick    \* parity of the number of reconciliation passes made

vars == <<r, tgs, inv, prev, dec, probe, sib, tick>>

NoInvocation ==
    [op |-> "none", resp |-> [err |-> NilErr, RuleArn |-> NilStr],
     calls |-> <<>>, events |-> <<>>, ret |-> NilErr,
     case |-> "none", diffed |-> FALSE]

Invocation(op, resp, o) ==
    [op |-> op, resp |-> resp, calls |-> o.calls, events |-> o.events,
     ret |-> o.ret, case |-> o.case, diffed |-> o.diffed]

NotDecoded(s) ==
    [stage |-> "string", encoded |-> FALSE, p |-> 0, s |-> s,
     done |-> FALSE, val |-> 0, err |-> NilErr]

NotEncoded(p) ==
    [stage |-> "int", encoded |-> FALSE, p |-> p, s |-> <<>>,
     done |-> FALSE, val |-> 0, err |-> NilErr]

NoProbe == [op |-> "none"]

\* The state before an operation, as the next state remembers it.
Before == [r |-> r, sib |-> sib, tgs |-> tgs, inv |-> inv]

Init ==
    /\ r \in PairedRules
    /\ tgs \in TargetGroupCollections
    /\ inv = NoInvocation
    /\ sib = NilRule
    /\ prev = [r |-> r, sib |-> sib, tgs |-> tgs, inv |-> NoInvocation]
    /\ dec = NotDecoded(DefaultStr)
    /\ probe = NoProbe
    /\ tick = 0

\* r.Reconcile(rOpts, l) with the provider answering resp.
ReconcilePass(resp) ==
    \E l \in ListenerArns :
        LET o == Reconcile(r, tgs, l, resp)
        IN  /\ r' = o.r
            /\ inv' = Invocation("Reconcile", resp, o)
            /\ prev' = Before
            /\ UNCHANGED <<tgs, sib>>

\* One reconciliation pass of the driver over r.
DoReconcile ==
    /\ \E resp \in ProviderResponses : ReconcilePass(resp)
    /\ UNCHANGED <<dec, probe, tick>>

\* r.delete called directly, outside Reconcile.
DoDelete ==
    \E resp \in ProviderResponses :
        LET o == Tagged(delete(r, resp), "direct", FALSE)
        IN  /\ r' = o.r
            /\ inv' = Invocation("delete", resp, o)
            /\ prev' = Before
            /\ UNCHANGED <<tgs, sib, dec, probe, tick>>

Next == DoReconcile \/ DoDelete

Spec == Init /\ [][Next]_vars

\* ------------------------------------------- the priority codec on its own

\* Characters of the strings handed to the decoder.
InputChars == {"0", "1", "7", "-", "+", "x"}

RECURSIVE StringsUpTo(_)
StringsUpTo(n) ==
    IF n = 0 THEN {<<>>}
    ELSE LET shorter == StringsUpTo(n - 1)
         IN  shorter \cup {Append(t, c) : t \in shorter, c \in InputChars}

PriorityStrings == StringsUpTo(MaxStrLen) \cup {DefaultStr}

InitCodec ==
    /\ r = NewRuleFromAWSRule(NilRule)
    /\ tgs = <<>>
    /\ inv = NoInvocation
    /\ sib = NilRule
    /\ prev = [r |-> r, sib |-> sib, tgs |-> tgs, inv |-> NoInvocation]
    /\ probe = NoProbe
    /\ tick = 0
    /\ dec \in {NotDecoded(s) : s \in PriorityStrings}
              \cup {NotEncoded(p) : p \in (0 - MaxCodecInt)..MaxCodecInt}

\* priority(s) applied to the argument.  Its only result is the *int64: no
\* error value reaches the caller.
DoPriority ==
    /\ dec.stage = "string"
    /\ ~dec.done
    /\ dec' = [dec EXCEPT !.done = TRUE, !.val = priority(dec.s), !.err = NilErr]
    /\ UNCHANGED <<r, tgs, inv, prev, probe, sib, tick>>

\* The priority-to-string step of NewRule applied to the argument.
DoEncode ==
    /\ dec.stage = "int"
    /\ dec' = [dec EXCEPT !.stage = "string", !.encoded = TRUE,
                          !.s = EncodePriority(dec.p)]
    /\ UNCHANGED <<r, tgs, inv, prev, probe, sib, tick>>

NextCodec == DoEncode \/ DoPriority

SpecCodec == InitCodec /\ [][NextCodec]_vars

\* ------------------------------------------- repeated reconciliation

\* The provider's answers by kind.
Successes == {resp \in ProviderResponses : resp.err = NilErr}

Failures == {resp \in ProviderResponses : resp.err # NilErr}

\* A pass of the driver over r while the provider is failing: the provider
\* fails for some passes at first and answers every call after that.
FailingPass ==
    /\ inv.op = "none" \/ inv.ret # NilErr
    /\ \E resp \in Failures : ReconcilePass(resp)
    /\ tick' = 1 - tick
    /\ UNCHANGED <<dec, probe>>

\* A pass of the driver over r with the provider answering the call.
SucceedingPass ==
    /\ \E resp \in Successes : ReconcilePass(resp)
    /\ tick' = 1 - tick
    /\ UNCHANGED <<dec, probe>>

NextConverge == FailingPass \/ SucceedingPass

\* The driver reconciles the Rule on every sync, without end.
SpecConverge == Init /\ [][NextConverge]_vars /\ WF_vars(SucceedingPass)

\* ------------------------------------------------ two Rules of a listener

\* Rules of one listener routed to a service: no current rule, the default
\* rule or a rule of priority 1 (without conditions, or with the path
\* condition), joined with no intent, the default intent or the path intent.
RuleShapes(svc) ==
    {Pair(cur, intent) :
        cur \in {NilRule}
                \cup {rule \in ObservedRules :
                         \/ rule.IsDefault
                         \/ /\ rule.Priority = Sprintf(1)
                            /\ rule.Conditions \in {<<>>, <<PathCondition("/api")>>}},
        intent \in {NewRuleFromAWSRule(NilRule),
                    NewRule(0, "", "", svc),
                    NewRule(1, "", "/api", svc)}}

InitSiblings ==
    /\ r \in RuleShapes("svc-a")
    /\ sib \in RuleShapes("svc-b")
    /\ tgs \in TargetGroupCollections
    /\ inv = NoInvocation
    /\ prev = [r |-> r, sib |-> sib, tgs |-> tgs, inv |-> NoInvocation]
    /\ dec = NotDecoded(DefaultStr)
    /\ probe = NoProbe
    /\ tick = 0

\* One reconciliation pass of the driver over the sibling, with the same
\* target group collection and listener.
DoReconcileSibling ==
    \E l \in ListenerArns, resp \in ProviderResponses :
        LET o == Reconcile(sib, tgs, l, resp)
        IN  /\ sib' = o.r
            /\ inv' = Invocation("ReconcileSibling", resp, o)
            /\ prev' = Before
            /\ UNCHANGED <<r, tgs, dec, probe, tick>>

NextSiblings == DoReconcile \/ DoReconcileSibling

SpecSiblings == InitSiblings /\ [][NextSiblings]_vars

\* ------------------------------- constructors and predicates on their own

\* Desired rules as NewRule builds them, and as create leaves them once it
\* has attached a target group.
DesiredSnapshots ==
    {[i.DesiredRule EXCEPT !.TargetGroupArn = a] :
        i \in IntentRules, a \in {NilStr, TgArnNames[1], TgArnNames[2]}}

\* Rules the predicates are applied to: any current rule or none, with a
\* desired rule or none.
PredicateRules ==
    {[CurrentRule |-> cur, DesiredRule |-> des, svcName |-> "svc-a",
      deleted |-> FALSE] :
        cur \in ObservedRules \cup {NilRule},
        des \in DesiredSnapshots \cup {NilRule}}

\* Rules handed to CurrentEquals as its target.
TargetRules == ObservedRules \cup {i.DesiredRule : i \in IntentRules}

InitFunctions ==
    /\ r \in PredicateRules
    /\ tgs = <<>>
    /\ inv = NoInvocation
    /\ sib = NilRule
    /\ prev = [r |-> r, sib |-> sib, tgs |-> tgs, inv |-> NoInvocation]
    /\ dec = NotDecoded(DefaultStr)
    /\ probe = NoProbe
    /\ tick = 0

\* r.needsModification() applied to r.  It dereferences the desired rule
\* as soon as there is a current rule, so it is applied only then.
DoNeedsModification ==
    /\ r.CurrentRule = NilRule \/ r.DesiredRule # NilRule
    /\ probe' = [op |-> "needsModification", before |-> r,
                 result |-> needsModification(r)]
    /\ UNCHANGED <<r, tgs, inv, prev, dec, sib, tick>>

\* r.CurrentEquals(target) applied to r.
DoCurrentEquals ==
    \E target \in TargetRules :
        /\ probe' = [op |-> "CurrentEquals", before |-> r, target |-> target,
                     result |-> CurrentEquals(r, target)]
        /\ UNCHANGED <<r, tgs, inv, prev, dec, sib, tick>>

\* NewRule(priority, hostname, path, svcname) replacing r: a fresh Rule, on
\* which no operation has been invoked yet.
DoNewRule ==
    \E p \in 0..MaxPriority, h \in Hostnames, pa \in Paths, s \in SvcNames :
        /\ r' = NewRule(p, h, pa, s)
        /\ probe' = [op |-> "NewRule", priority |-> p, hostname |-> h,
                     path |-> pa, svcname |-> s]
        /\ prev' = [prev EXCEPT !.r = r']
        /\ UNCHANGED <<tgs, inv, dec, sib, tick>>

\* NewRuleFromAWSRule(rule) replacing r.
DoNewRuleFromAWSRule ==
    \E rule \in ObservedRules :
        /\ r' = NewRuleFromAWSRule(rule)
        /\ probe' = [op |-> "NewRuleFromAWSRule", rule |-> rule]
        /\ prev' = [prev EXCEPT !.r = r']
        /\ UNCHANGED <<tgs, inv, dec, sib, tick>>

NextFunctions ==
    \/ DoNeedsModification
    \/ DoCurrentEquals
    \/ DoNewRule
    \/ DoNewRuleFromAWSRule

SpecFunctions == InitFunctions /\ [][NextFunctions]_vars

\* ------------------------------------------------------------- properties

\* The Rule as the last operation found it.
PreCurrent == prev.r.CurrentRule

PreDesired == prev.r.DesiredRule

Reconciled == inv.op = "Reconcile"

CreateCalls == {i \in 1..Len(inv.calls) : inv.calls[i].api = "CreateRule"}

DeleteCalls == {i \in 1..Len(inv.calls) : inv.calls[i].api = "DeleteRule"}

\* The last Reconcile found no current rule and a non-default desired rule.
CreateState ==
    /\ Reconciled
    /\ PreCurrent = NilRule
    /\ PreDesired # NilRule
    /\ ~PreDesired.IsDefault

\* The last Reconcile found no desired rule and a non-default current rule.
DeleteState ==
    /\ Reconciled
    /\ PreDesired = NilRule
    /\ PreCurrent # NilRule
    /\ ~PreCurrent.IsDefault

\* The target group collection holds a record for the Rule's service.
Resolvable == \E i \in 1..Len(tgs) : tgs[i].SvcName = prev.r.svcName

\* C1: whenever Reconcile finds no current rule and a non-default desired
\* rule, it issues exactly one CreateRule call, the call's action carries a
\* resolved (non-nil) target group ARN, that of the first record of the
\* service, and if the provider succeeds Reconcile returns nil and the
\* current rule is the rule the provider returned.
C1_CreateCarriesResolvedTargetGroup ==
    CreateState =>
        /\ Len(inv.calls) = 1
        /\ inv.calls[1].api = "CreateRule"
        /\ inv.calls[1].TargetGroupArn # NilStr
        /\ \E i \in 1..Len(tgs) :
               /\ tgs[i].SvcName = prev.r.svcName
               /\ \A j \in 1..(i - 1) : tgs[j].SvcName # prev.r.svcName
               /\ inv.calls[1].TargetGroupArn = tgs[i].TargetGroupArn
        /\ inv.resp.err = NilErr =>
               /\ inv.ret = NilErr
               /\ r.CurrentRule = CreateRule(inv.calls[1], inv.resp).Rule

\* C2: whenever Reconcile finds no desired rule and a non-default current
\* rule, it issues exactly one DeleteRule call, for the current rule's ARN,
\* and if the provider succeeds the deleted marker is true afterwards and
\* Reconcile returns nil.
C2_DeleteIssuesOneCall ==
    DeleteState =>
        /\ inv.calls = <<[api |-> "DeleteRule", RuleArn |-> PreCurrent.RuleArn]>>
        /\ inv.resp.err = NilErr => (r.deleted /\ inv.ret = NilErr)

C2_Witness ==
    /\ DeleteState
    /\ ~prev.r.deleted
    /\ inv.resp.err = NilErr
    /\ Len(inv.calls) = 1
    /\ r.deleted

\* C3: whenever Reconcile finds no desired rule and a current rule that is
\* absent or the default rule, it is a no-op: no provider call, no
\* notification, the Rule (current rule and deleted marker included) left as
\* it was, and nil returned.
C3_NoDesiredNoOp ==
    (/\ Reconciled
     /\ PreDesired = NilRule
     /\ (PreCurrent = NilRule \/ PreCurrent.IsDefault)) =>
        /\ inv.calls = <<>>
        /\ inv.events = <<>>
        /\ r.CurrentRule = PreCurrent
        /\ r.deleted = prev.r.deleted
        /\ r = prev.r
        /\ inv.ret = NilErr

C3_Witness ==
    /\ Reconciled
    /\ PreDesired = NilRule
    /\ PreCurrent # NilRule
    /\ PreCurrent.IsDefault
    /\ inv.calls = <<>>
    /\ r.CurrentRule = PreCurrent

\* C4: whenever Reconcile finds a desired rule that is the default rule,
\* whatever the current rule, it issues no provider call, returns nil, and
\* afterwards the current rule equals the desired rule.
C4_DesiredDefaultAdopted ==
    (Reconciled /\ PreDesired # NilRule /\ PreDesired.IsDefault) =>
        /\ inv.calls = <<>>
        /\ inv.ret = NilErr
        /\ r.CurrentRule = r.DesiredRule
        /\ r.DesiredRule = PreDesired

C4_Witness ==
    /\ Reconciled
    /\ PreDesired # NilRule
    /\ PreDesired.IsDefault
    /\ PreCurrent # NilRule
    /\ ~PreCurrent.IsDefault
    /\ r.CurrentRule = PreDesired

\* C5: whenever the create path finds no target group record for the
\* Rule's service (the current rule carrying no resolved ARN), it halts:
\* Reconcile returns an error and no CreateRule call goes out with a nil
\* target group ARN.
C5_UnresolvedTargetGroupHalts ==
    (CreateState /\ ~Resolvable) =>
        /\ inv.ret # NilErr
        /\ \A i \in CreateCalls : inv.calls[i].TargetGroupArn # NilStr

\* A base-10 integer in writing: an optional sign followed by at least one
\* digit.
IsDecimal(s) ==
    LET body == IF s # <<>> /\ Head(s) \in {"+", "-"} THEN Tail(s) ELSE s
    IN  /\ body # <<>>
        /\ \A i \in 1..Len(body) : body[i] \in DigitSet

Malformed(s) == s # DefaultStr /\ ~IsDecimal(s)

\* C6: decoding a priority string that is neither "default" nor a decimal
\* integer reports an error to the caller.
C6_MalformedPriorityReported ==
    (dec.done /\ Malformed(dec.s)) => dec.err # NilErr

\* C7: when the provider's DeleteRule fails, Reconcile returns that error,
\* leaves the deleted marker as it was (false if it was false) and the
\* current rule unchanged, and the next Reconcile pass on the Rule, its
\* desired rule still absent, issues the same DeleteRule call again.
C7_FailedDeleteIsRetriable ==
    /\ (Reconciled /\ DeleteCalls # {} /\ inv.resp.err # NilErr) =>
           /\ inv.ret = inv.resp.err
           /\ r.deleted = prev.r.deleted
           /\ ~prev.r.deleted => ~r.deleted
           /\ r.CurrentRule = PreCurrent
    /\ (/\ Reconciled
        /\ prev.inv.op = "Reconcile"
        /\ prev.inv.case = "delete"
        /\ prev.inv.ret # NilErr) =>
           /\ PreDesired = NilRule
           /\ inv.calls = prev.inv.calls
           /\ DeleteCalls = {1}

C7_Witness ==
    /\ Reconciled
    /\ prev.inv.op = "Reconcile"
    /\ prev.inv.case = "delete"
    /\ prev.inv.ret \in ProviderErrors
    /\ ~prev.r.deleted
    /\ DeleteCalls = {1}
    /\ inv.resp.err = NilErr
    /\ r.deleted

\* C8: one Reconcile issues at most one provider call; when it returns an
\* error, that is the provider's error to the one call it issued, and the
\* current rule is as it was before.
C8_AtMostOneCallNoRetry ==
    Reconciled =>
        /\ Len(inv.calls) <= 1
        /\ inv.ret # NilErr =>
               /\ Len(inv.calls) = 1
               /\ inv.ret = inv.resp.err
               /\ r.CurrentRule = PreCurrent

C8_Witness ==
    /\ Reconciled
    /\ inv.case = "create"
    /\ inv.ret \in ProviderErrors
    /\ Len(inv.calls) = 1
    /\ r.CurrentRule = NilRule

\* Whether a rule snapshot is absent, the default rule or another rule.
Kind(rule) ==
    IF rule = NilRule THEN "absent"
    ELSE IF rule.IsDefault THEN "default" ELSE "non-default"

\* The case the ordered switch is to take for a current and a desired rule.
ExpectedCase(cur, des) ==
    CASE Kind(des) = "absent" /\ Kind(cur) \in {"absent", "default"} -> "noop"
      [] Kind(des) = "absent" /\ Kind(cur) = "non-default" -> "delete"
      [] Kind(des) = "default" -> "adopt-default"
      [] Kind(des) = "non-default" /\ Kind(cur) = "absent" -> "create"
      [] Kind(des) = "non-default" /\ Kind(cur) # "absent"
             /\ cur.Conditions # des.Conditions -> "modify"
      [] Kind(des) = "non-default" /\ Kind(cur) # "absent"
             /\ cur.Conditions = des.Conditions -> "noop"

\* C9: for every combination of current (absent, default, non-default) and
\* desired (absent, default, non-default), Reconcile takes exactly the one
\* case the ordered switch gives: desired absent, desired default, current
\* absent, modification needed, otherwise.
C9_ReconcileTakesTheOrderedCase ==
    Reconciled =>
        /\ inv.case \in {"noop", "delete", "adopt-default", "create", "modify"}
        /\ inv.case = ExpectedCase(PreCurrent, PreDesired)

C9_Witness ==
    /\ Reconciled
    /\ Kind(PreCurrent) = "absent"
    /\ Kind(PreDesired) = "default"
    /\ inv.case = "adopt-default"

\* C10: no CreateRule call is ever issued for a desired rule that is the
\* default rule, no DeleteRule call for a current rule that is the default
\* rule, by Reconcile or by delete called directly, and Reconcile never
\* compares condition lists when there is no current rule.
C10_DefaultNeverCreatedOrDeleted ==
    /\ CreateCalls # {} => (PreDesired # NilRule /\ ~PreDesired.IsDefault)
    /\ DeleteCalls # {} => (PreCurrent # NilRule /\ ~PreCurrent.IsDefault)
    /\ inv.diffed => PreCurrent # NilRule

C10_Witness ==
    /\ inv.op = "delete"
    /\ PreCurrent # NilRule
    /\ PreCurrent.IsDefault
    /\ inv.calls = <<>>
    /\ ~r.deleted

\* C11: needsModification is true whenever there is no current rule; with a
\* current rule it is true exactly when the two ordered condition lists
\* differ, whatever the target groups and the priorities of the two rules;
\* and it leaves the Rule as it was.
C11_NeedsModificationIsConditionDiff ==
    probe.op = "needsModification" =>
        /\ r = probe.before
        /\ r.CurrentRule = NilRule => probe.result = TRUE
        /\ r.CurrentRule # NilRule =>
               (probe.result <=> r.CurrentRule.Conditions # r.DesiredRule.Conditions)

\* Same conditions, another target group and another priority: no
\* modification needed.
C11_Witness ==
    /\ probe.op = "needsModification"
    /\ r.CurrentRule # NilRule
    /\ r.CurrentRule.Conditions = r.DesiredRule.Conditions
    /\ Len(r.CurrentRule.Conditions) = 2
    /\ r.CurrentRule.TargetGroupArn # r.DesiredRule.TargetGroupArn
    /\ r.CurrentRule.Priority # r.DesiredRule.Priority
    /\ probe.result = FALSE

\* The last Reconcile found both rules, the desired one not the default
\* rule, with different condition lists.
DriftState ==
    /\ Reconciled
    /\ PreCurrent # NilRule
    /\ PreDesired # NilRule
    /\ ~PreDesired.IsDefault
    /\ PreCurrent.Conditions # PreDesired.Conditions

C13_CurrentEqualsIsPriorityAndConditions ==
    probe.op = "CurrentEquals" =>
        /\ r = probe.before
        /\ r.CurrentRule = NilRule => probe.result = FALSE
        /\ r.CurrentRule # NilRule =>
               (probe.result <=>
                    /\ r.CurrentRule.Priority = probe.target.Priority
                    /\ r.CurrentRule.Conditions = probe.target.Conditions)

\* Same conditions and another priority: not equal.
C13_Witness ==
    /\ probe.op = "CurrentEquals"
    /\ r.CurrentRule # NilRule
    /\ r.CurrentRule.Conditions = probe.target.Conditions
    /\ r.CurrentRule.Priority # probe.target.Priority
    /\ probe.result = FALSE

\* Same priority and conditions, another target group and ARN: equal.
C13_WitnessEqual ==
    /\ probe.op = "CurrentEquals"
    /\ r.CurrentRule # NilRule
    /\ r.CurrentRule # probe.target
    /\ probe.result = TRUE

\* C14: decoding the encoding of a priority p >= 1 gives p; the encoding of
\* 0 is "default", and decoding "default" gives 0.
C14_PriorityRoundTrip ==
    /\ (dec.encoded /\ dec.p = 0) => dec.s = DefaultStr
    /\ (dec.encoded /\ dec.done /\ dec.p >= 1) => dec.val = dec.p
    /\ (dec.done /\ dec.s = DefaultStr) => dec.val = 0

\* A three-digit priority encoded and decoded again.
C14_Witness ==
    /\ dec.encoded
    /\ dec.done
    /\ dec.p >= 100
    /\ Len(dec.s) = 3
    /\ dec.val = dec.p

\* NewRule has just built r.
Constructed == probe.op = "NewRule"

\* C15: NewRule yields a Rule with no current rule and a desired rule that
\* is the default rule exactly for priority 0, whose priority is the encoded
\* string ("default" for 0, else the decimal form), whose action is one
\* forward action with no target group yet, and whose conditions are a
\* host-header condition exactly when the hostname is non-empty, followed by
\* a path-pattern condition exactly when the path is non-empty.
C15_NewRuleBuildsDesired ==
    Constructed =>
        /\ r.CurrentRule = NilRule
        /\ r.svcName = probe.svcname
        /\ ~r.deleted
        /\ r.DesiredRule.IsDefault <=> probe.priority = 0
        /\ probe.priority = 0 => r.DesiredRule.Priority = DefaultStr
        /\ probe.priority # 0 =>
               /\ r.DesiredRule.Priority # DefaultStr
               /\ ParseInt(r.DesiredRule.Priority)
                      = [val |-> probe.priority, err |-> NilErr]
        /\ r.DesiredRule.ActionType = "forward"
        /\ r.DesiredRule.TargetGroupArn = NilStr
        /\ r.DesiredRule.Conditions =
               (IF probe.hostname # ""
                THEN <<[Field |-> "host-header", Values |-> <<probe.hostname>>]>>
                ELSE <<>>)
               \o (IF probe.path # ""
                   THEN <<[Field |-> "path-pattern", Values |-> <<probe.path>>]>>
                   ELSE <<>>)

\* The scenario of the specification, with a priority of the model.
C15_Witness ==
    /\ Constructed
    /\ probe.priority = 2
    /\ probe.hostname = "example.com"
    /\ probe.path = "/api"
    /\ probe.svcname = "svc-a"
    /\ r.DesiredRule.Priority = <<"2">>
    /\ ~r.DesiredRule.IsDefault
    /\ Len(r.DesiredRule.Conditions) = 2
    /\ r.DesiredRule.Conditions[1].Field = "host-header"

\* C16: NewRule with priority 0 yields the default rule, with priority
\* "default" and no conditions, whatever the hostname and the path.
C16_DefaultRuleHasNoConditions ==
    (Constructed /\ probe.priority = 0) =>
        /\ r.DesiredRule.IsDefault
        /\ r.DesiredRule.Priority = DefaultStr
        /\ r.DesiredRule.Conditions = <<>>

\* The last operation issued no provider call and emitted no notification.
Quiet == inv.calls = <<>> /\ inv.events = <<>>

\* C17: reconciled again and again with its desired rule fixed and a
\* provider that ends up succeeding, the Rule reaches passes that issue no
\* provider call and emit no notification, and stays there.
C17_EventuallyQuietForever == <>[]Quiet

\* The deleted marker is false on a Rule no operation has touched, is
\* raised only by an operation whose one DeleteRule call succeeded, and is
\* never lowered.
MarkerRisesOnDeleteOnly ==
    /\ inv.op = "none" => ~r.deleted
    /\ (r.deleted /\ ~prev.r.deleted) => (DeleteCalls = {1} /\ inv.resp.err = NilErr)
    /\ prev.r.deleted => r.deleted

\* C18 as stated: the deleted marker is false on construction, becomes true
\* only by a DeleteRule call that succeeded, never returns to false, and
\* once it is true no later Reconcile issues any provider call.
C18_NoCallOnceDeleted ==
    /\ MarkerRisesOnDeleteOnly
    /\ (Reconciled /\ prev.r.deleted) => inv.calls = <<>>

\* C18 as amended: the deleted marker is false on construction, becomes true
\* only by a DeleteRule call that succeeded and never returns to false;
\* Reconcile does not read it, and a later pass over the same Rule, its
\* current rule still in place and its desired rule still absent, issues the
\* DeleteRule call for that rule again.
C18_MarkerTerminalButNotRead ==
    /\ MarkerRisesOnDeleteOnly
    /\ (/\ Reconciled
        /\ prev.r.deleted
        /\ PreDesired = NilRule
        /\ PreCurrent # NilRule) =>
           inv.calls = <<[api |-> "DeleteRule", RuleArn |-> PreCurrent.RuleArn]>>

C18_Witness ==
    /\ Reconciled
    /\ prev.r.deleted
    /\ prev.inv.op = "Reconcile"
    /\ prev.inv.case = "delete"
    /\ DeleteCalls = {1}
    /\ r.deleted

\* Notifications of the last operation, by type and reason.
NormalEvents == {i \in 1..Len(inv.events) : inv.events[i].Type = "Normal"}

WarningEvents == {i \in 1..Len(inv.events) : inv.events[i].Type = "Warning"}

HasNormal(reason) ==
    \E i \in NormalEvents : inv.events[i].Reason = reason

\* The last operation issued a provider call and the provider failed it.
CallFailed == inv.calls # <<>> /\ inv.resp.err # NilErr

\* C19: in one Reconcile a normal CREATE, DELETE or MODIFY notification is
\* emitted only by the case of that name and only when its step returned
\* nil (for create and delete: after its provider call succeeded); a warning
\* is emitted exactly when a provider call failed; a warning and a normal
\* notification never come from the same invocation; and the no-op and
\* adopt-default cases emit nothing.
C19_NotificationsFollowOutcomes ==
    Reconciled =>
        /\ \A i \in NormalEvents :
               inv.events[i].Reason \in {"CREATE", "DELETE", "MODIFY"}
        /\ HasNormal("CREATE") =>
               (inv.case = "create" /\ inv.ret = NilErr /\ CreateCalls = {1}
                    /\ inv.resp.err = NilErr)
        /\ HasNormal("DELETE") =>
               (inv.case = "delete" /\ inv.ret = NilErr /\ DeleteCalls = {1}
                    /\ inv.resp.err = NilErr)
        /\ HasNormal("MODIFY") => (inv.case = "modify" /\ inv.ret = NilErr)
        /\ (WarningEvents # {}) <=> CallFailed
        /\ Cardinality(WarningEvents) <= 1
        /\ ~(WarningEvents # {} /\ NormalEvents # {})
        /\ inv.case \in {"noop", "adopt-default"} => inv.events = <<>>

\* A failed create: one warning, no normal notification.
C19_Witness ==
    /\ Reconciled
    /\ inv.case = "create"
    /\ CallFailed
    /\ Cardinality(WarningEvents) = 1
    /\ NormalEvents = {}

\* The last pass reconciled the sibling.
SiblingReconciled == inv.op = "ReconcileSibling"

\* What the last pass may have written in the Rule it reconciled, before
\* being the Rule before the pass: never the service name; the current rule
\* only on a successful create or on adopting the default rule; the marker
\* only on a successful delete.
OwnFrame(before, after) ==
    /\ after.svcName = before.svcName
    /\ after.CurrentRule # before.CurrentRule =>
           \/ inv.case = "create" /\ inv.ret = NilErr
           \/ inv.case = "adopt-default"
    /\ after.deleted # before.deleted =>
           inv.case = "delete" /\ inv.ret = NilErr /\ after.deleted

\* The last pass left the target group collection and the other Rule alone.
OthersFrame ==
    /\ tgs = prev.tgs
    /\ Reconciled => sib = prev.sib
    /\ SiblingReconciled => r = prev.r

\* C20 as stated: Reconcile never changes the Rule's service name or the
\* target group collection, leaves the desired rule unchanged in every
\* case, writes only the Rule's own current rule (create success,
\* adopt-default) and deleted marker (delete success), and so never alters
\* a sibling Rule reconciled in any interleaving.
C20_DesiredNeverWritten ==
    (Reconciled \/ SiblingReconciled) =>
        LET before == IF Reconciled THEN prev.r ELSE prev.sib
            after  == IF Reconciled THEN r ELSE sib
        IN  /\ OthersFrame
            /\ OwnFrame(before, after)
            /\ after.DesiredRule = before.DesiredRule

\* C20, amended: as above, except that the create case, whether or not the
\* provider call succeeds, writes the target group ARN it sent into the
\* desired rule's action; the desired rule is otherwise unchanged, and is
\* unchanged in every other case.
C20_FrameWithAttachedTargetGroup ==
    (Reconciled \/ SiblingReconciled) =>
        LET before == IF Reconciled THEN prev.r ELSE prev.sib
            after  == IF Reconciled THEN r ELSE sib
        IN  /\ OthersFrame
            /\ OwnFrame(before, after)
            /\ after.DesiredRule =
                   IF inv.case = "create"
                   THEN [before.DesiredRule EXCEPT
                            !.TargetGroupArn = inv.calls[1].TargetGroupArn]
                   ELSE before.DesiredRule

\* The sibling was created, with a target group attached to its desired
\* rule, right after a pass that deleted the Rule.
C20_Witness ==
    /\ SiblingReconciled
    /\ inv.case = "create"
    /\ inv.ret = NilErr
    /\ sib.DesiredRule # prev.sib.DesiredRule
    /\ sib.CurrentRule # prev.sib.CurrentRule
    /\ prev.inv.op = "Reconcile"
    /\ prev.inv.case = "delete"
    /\ r.deleted

====
